---- MODULE Spec2Model ----
(***************************************************************************)
(* Closed-loop intent verification of working_llm_system.py:               *)
(* main() runs process_intent() for every test case; process_intent()      *)
(* loops generate -> baseline -> deploy -> verify -> validate with         *)
(* feedback and an iptables flush after every failed attempt.              *)
(* Texts are sequences of one-character strings, so that the substring     *)
(* tests, strip(), split() and replace() of the source are computed.       *)
(***************************************************************************)
EXTENDS Integers, Sequences, FiniteSets, TLC

\* ---------------------------------------------------------------- bounds
MaxTests == 2
MaxAttemptsBound == 3
MaxTableLen == 2

\* ---------------------------------------------------------------- text primitives (Python str)
None == <<"None">>

Whitespace == {" ", "\n", "\t"}

UpperAlpha == <<"A","B","C","D","E","F","G","H","I","J","K","L","M",
                "N","O","P","Q","R","S","T","U","V","W","X","Y","Z">>

LowerAlpha == <<"a","b","c","d","e","f","g","h","i","j","k","l","m",
                "n","o","p","q","r","s","t","u","v","w","x","y","z">>

DigitChar == <<"0","1","2","3","4","5","6","7","8","9">>

LowerChar(c) ==
    IF \E k \in 1..26 : UpperAlpha[k] = c
    THEN LowerAlpha[CHOOSE k \in 1..26 : UpperAlpha[k] = c]
    ELSE c

\* str.lower()
Lower(s) == [k \in 1..Len(s) |-> LowerChar(s[k])]

RECURSIVE LStrip(_)
LStrip(s) == IF s # <<>> /\ Head(s) \in Whitespace THEN LStrip(Tail(s)) ELSE s

RECURSIVE RStrip(_)
RStrip(s) ==
    IF s # <<>> /\ s[Len(s)] \in Whitespace
    THEN RStrip(SubSeq(s, 1, Len(s) - 1))
    ELSE s

\* str.strip()
Strip(s) == RStrip(LStrip(s))

StartsWith(s, p) == Len(p) <= Len(s) /\ SubSeq(s, 1, Len(p)) = p

\* p in s
Contains(s, p) == \E k \in 0..(Len(s) - Len(p)) : SubSeq(s, k + 1, k + Len(p)) = p

\* s.find(p) + 1, for p in s
FindFirst(s, p) ==
    CHOOSE k \in 1..(Len(s) - Len(p) + 1) :
        /\ SubSeq(s, k, k + Len(p) - 1) = p
        /\ \A j \in 1..(k - 1) : SubSeq(s, j, j + Len(p) - 1) # p

\* s.split(sep), sep non-empty
RECURSIVE Split(_, _)
Split(s, sep) ==
    IF ~Contains(s, sep)
    THEN <<s>>
    ELSE LET k == FindFirst(s, sep)
         IN  <<SubSeq(s, 1, k - 1)>> \o Split(SubSeq(s, k + Len(sep), Len(s)), sep)

\* s.replace(old, ""), old non-empty
RECURSIVE Remove(_, _)
Remove(s, old) ==
    IF s = <<>> THEN <<>>
    ELSE IF StartsWith(s, old)
         THEN Remove(SubSeq(s, Len(old) + 1, Len(s)), old)
         ELSE <<Head(s)>> \o Remove(Tail(s), old)

\* str(n) for n >= 0
RECURSIVE Digits(_)
Digits(n) ==
    IF n < 10 THEN <<DigitChar[n + 1]>>
    ELSE Digits(n \div 10) \o <<DigitChar[(n % 10) + 1]>>

\* Python truthiness of a str-or-None value
Truthy(x) == x # None /\ x # <<>>

\* ---------------------------------------------------------------- texts of the program
\* the backquote character (a backquote cannot be written in a TLA+ string)
BackQuote == "BQ"

\* the code fence: three backquotes
Fence == <<BackQuote, BackQuote, BackQuote>>

\* "bash"
TokBash == <<"b", "a", "s", "h">>

\* "sh"
TokSh == <<"s", "h">>

\* "block"
KwBlock == <<"b", "l", "o", "c", "k">>

DQuote == << "\"" >>

SQuote == << "'" >>

\* "% packet loss"
PctPacketLoss == <<"%", " ", "p", "a", "c", "k", "e", "t", " ", "l", "o", "s", "s">>

\* "0% packet loss"
PhraseReachable == <<"0">> \o PctPacketLoss

\* "100% packet loss"
PhraseBlocked == <<"1", "0", "0">> \o PctPacketLoss

\* ---------------------------------------------------------------- inputs
Hosts == {"h1", "h2", "h3"}

\* "Block h2", "Allow h3"
IntentBlock == <<"B", "l", "o", "c", "k", " ", "h", "2">>

IntentAllow == <<"A", "l", "l", "o", "w", " ", "h", "3">>

TestCases ==
    { [intent |-> IntentBlock, src |-> "h1", dst |-> "h2"],
      [intent |-> IntentAllow, src |-> "h1", dst |-> "h3"] }

Batches == UNION { [1..n -> TestCases] : n \in 0..MaxTests }

\* values of the GROQ_API_KEY environment variable: a key, unset/empty, blanks
ApiKeyEnvs == { <<"g", "s", "k">>, <<>>, <<" ", "\t">> }

\* iptables commands the model may answer with
RuleA == <<"-", "j", " ", "D", "R", "O", "P">>

\* a command with "sh" inside a word: "-m hash"
RuleHash == <<"-", "m", " ", "h", "a", "s", "h">>

\* outcome of client.chat.completions.create: an exception, or the content
LLMError == <<"Exception">>

RawFenced == Fence \o TokBash \o <<"\n">> \o RuleA \o <<"\n">> \o Fence

\* RuleHash in a code fence opened with the dialect name sh
RawFencedSh == Fence \o TokSh \o <<"\n">> \o RuleHash \o <<"\n">> \o Fence

RawQuotes == DQuote \o DQuote

LLMOutcomes ==
    { LLMError, RawFenced, RawFencedSh, RawQuotes }

\* the loss percentages ping -c 3 reports: none, one or all of the packets lost
PingReports == { 0, 33, 100 }

\* the summary line of ping, h_src.cmd("ping -c 3 -W 1 ...")
PingOutput(n) == Digits(n) \o PctPacketLoss

\* ---------------------------------------------------------------- pure functions of the program
\* lines 77-89: cleanup of the completion text
Sanitize(content) ==
    LET c0 == Strip(content)
        c1 == IF Contains(c0, Fence)
              THEN LET parts == Split(c0, Fence)
                       mid   == IF Len(parts) >= 2 THEN parts[2] ELSE c0
                   IN  Strip(Remove(Remove(mid, TokBash), TokSh))
              ELSE c0
    IN  Strip(Remove(Remove(c1, DQuote), SQuote))

\* lines 66-96: the value generate_network_command returns
generate_network_command(outcome) ==
    IF outcome = LLMError THEN None ELSE Sanitize(outcome)

\* lines 105-111
test_connectivity(result) ==
    IF Contains(result, PhraseReachable) THEN <<0, "REACHABLE">>
    ELSE IF Contains(result, PhraseBlocked) THEN <<100, "BLOCKED">>
    ELSE <<50, "PARTIAL">>

IsBlockIntent_NoLower(intent) == Contains(intent, KwBlock)

\* line 156
IsBlockIntent(intent) == Contains(Lower(intent), KwBlock)

\* lines 156-159
IsSuccess(intent, loss_after) ==
    IF IsBlockIntent(intent) THEN loss_after = 100 ELSE loss_after = 0

Validated_NeedsChange(intent, loss_before, loss_after) ==
    IsSuccess(intent, loss_after) /\ loss_before # loss_after

\* lines 156-161: success, with loss_before and loss_after in scope
Validated(intent, loss_before, loss_after) == IsSuccess(intent, loss_after)

\* lines 176-179
BuildFeedback(src, dst, loss_after) ==
    <<"Expected traffic to be fully blocked between ", src, " and ", dst,
      ", but after applying the rule, measured ">>
      \o Digits(loss_after) \o <<"% packet loss.">>

NoCommand_OnlyNone(command) == command = None

\* line 129: not command
NoCommand(command) == ~Truthy(command)

LoopHasNext_OffByOne(attempt, max) == attempt + 1 < max

\* line 123: range(1, max_attempts + 1) has an element after attempt
LoopHasNext(attempt, max) == attempt < max

SuccessResult_ZeroBased(command, attempt) ==
    [success |-> TRUE, command |-> command, attempts |-> attempt - 1]

\* line 170
SuccessResult(command, attempt) ==
    [success |-> TRUE, command |-> command, attempts |-> attempt]

\* line 186
ExhaustedResult(max) ==
    [success |-> FALSE, command |-> None, attempts |-> max]

NextFeedback_KeepFirst(old, new) == IF old = None THEN new ELSE old

\* line 176: feedback = (...)
NextFeedback(old, new) == new

FeedbackAfterSkip_Cleared(feedback) == None

\* lines 129-131: continue leaves feedback as it is
FeedbackAfterSkip(feedback) == feedback

Flush_DeleteFirst(table) == IF table = <<>> THEN <<>> ELSE Tail(table)

\* "iptables -F" on a rule table
Flush(table) == <<>>

RulesAfterFail_NoReset(rules, src) == rules

\* line 182
RulesAfterFail(rules, src) == [rules EXCEPT ![src] = Flush(@)]

PcAfterGenerate_NoBaseline == "deploy"

\* lines 133-135: the step after a usable command
PcAfterGenerate == "baseline"

PcAfterTest_AbortOnFail(result) == IF result.success THEN "main_for" ELSE "summary"

\* line 224: the for loop of main goes on whatever the result
PcAfterTest(result) == "main_for"

KeyMissing_NoStrip(env) == env = <<>>

\* lines 16-18: not os.getenv("GROQ_API_KEY", "").strip()
KeyMissing(env) == Strip(env) = <<>>

\* line 250
RECURSIVE SuccessCount(_)
SuccessCount(rs) ==
    IF rs = <<>> THEN 0
    ELSE (IF Head(rs).success THEN 1 ELSE 0) + SuccessCount(Tail(rs))

SuccessRate_FloorDivision(rs) ==
    IF rs # <<>> THEN << (SuccessCount(rs) \div Len(rs)) * 100, 1 >> ELSE << 0, 1 >>

\* line 251: (success_count / len(results)) * 100 as an exact fraction, or 0.0
SuccessRate(rs) ==
    IF rs # <<>> THEN << SuccessCount(rs) * 100, Len(rs) >> ELSE << 0, 1 >>

\* ---------------------------------------------------------------- state
VARIABLES
    pc,            \* position of the single thread of control
    api_key_env,   \* os.getenv("GROQ_API_KEY", "")
    tests,         \* main: the ordered batch of test cases
    max_attempts,  \* process_intent: the attempt budget
    i,             \* main: index of the test case being run (0 before the first)
    results,       \* main: results
    rules,         \* the filter table of every host
    attempt,       \* process_intent: loop variable
    feedback,      \* process_intent: feedback
    command,       \* process_intent: command
    before,        \* process_intent: (loss_before, status_before)
    after,         \* process_intent: (loss_after, status_after)
    result,        \* the value process_intent returned
    genCalls,      \* history: the generate calls of the current intent
    events,        \* history: what process_intent did for the current intent
    fbFrom,        \* history: the attempt whose failure built feedback (0: none)
    lastPing,      \* history: what ping reported to the probe that has just returned, and its result
    lastRaw,       \* history: the outcome of the completion request of the attempt under way
    success_rate   \* main: success_rate, a fraction << numerator, denominator >>

vars == << pc, api_key_env, tests, max_attempts, i, results, rules, attempt,
           feedback, command, before, after, result, genCalls, events, fbFrom,
           lastPing, lastRaw, success_rate >>

\* the test case main is running
Cur == tests[i]

\* an entry of events: the attempt, what was done, and for "verify" the loss
\* measured
Event(a, name, loss) == [a |-> a, ev |-> name, loss |-> loss]

Init ==
    /\ pc = "start"
    /\ api_key_env \in ApiKeyEnvs
    /\ tests \in Batches
    /\ max_attempts \in 0..MaxAttemptsBound
    /\ i = 0
    /\ results = <<>>
    /\ rules = [h \in Hosts |-> <<>>]
    /\ attempt = 0
    /\ feedback = None
    /\ command = None
    /\ before = None
    /\ after = None
    /\ result = None
    /\ genCalls = <<>>
    /\ events = <<>>
    /\ fbFrom = 0
    /\ lastPing = None
    /\ lastRaw = None
    /\ success_rate = None

\* lines 16-22: the key is read and stripped; without it the process exits
Start ==
    /\ pc = "start"
    /\ pc' = IF KeyMissing(api_key_env) THEN "fatal" ELSE "main_for"
    /\ UNCHANGED << api_key_env, tests, max_attempts, i, results, rules, attempt,
                    feedback, command, before, after, result, genCalls, events,
                    fbFrom, lastPing >>
    /\ UNCHANGED << lastRaw, success_rate >>

\* line 224 and the call of line 230 (lines 120-121), or the end of the loop
MainFor ==
    /\ pc = "main_for"
    /\ IF i < Len(tests)
       THEN /\ i' = i + 1
            /\ feedback' = None
            /\ attempt' = 0
            /\ command' = None
            /\ before' = None
            /\ after' = None
            /\ result' = None
            /\ genCalls' = <<>>
            /\ events' = <<>>
            /\ fbFrom' = 0
            /\ lastPing' = None
            /\ lastRaw' = None
            /\ pc' = "for"
       ELSE /\ pc' = "summary"
            /\ UNCHANGED << i, feedback, attempt, command, before, after, result,
                            genCalls, events, fbFrom, lastPing, lastRaw >>
    /\ UNCHANGED << api_key_env, tests, max_attempts, results, rules >>
    /\ UNCHANGED success_rate

\* a return of process_intent ends the life of its local variables
FrameEnds ==
    /\ attempt' = 0
    /\ feedback' = None
    /\ command' = None
    /\ before' = None
    /\ after' = None

\* line 123: the next attempt of the loop
ForAttempt ==
    /\ pc = "for"
    /\ LoopHasNext(attempt, max_attempts)
    /\ attempt' = attempt + 1
    /\ lastRaw' = None
    /\ pc' = "gen"
    /\ UNCHANGED << api_key_env, tests, max_attempts, i, results, rules, feedback,
                    command, before, after, result, genCalls, events, fbFrom,
                    lastPing >>
    /\ UNCHANGED success_rate

\* lines 185-186: the loop is over
Exhausted ==
    /\ pc = "for"
    /\ ~LoopHasNext(attempt, max_attempts)
    /\ result' = ExhaustedResult(max_attempts)
    /\ FrameEnds
    /\ lastRaw' = None
    /\ pc' = "returned"
    /\ UNCHANGED << api_key_env, tests, max_attempts, i, results, rules, genCalls,
                    events, fbFrom, lastPing >>
    /\ UNCHANGED success_rate

\* lines 128-131
Generate ==
    /\ pc = "gen"
    /\ \E outcome \in LLMOutcomes :
         /\ command' = generate_network_command(outcome)
         /\ lastRaw' = outcome
         /\ genCalls' = Append(genCalls, [attempt |-> attempt, feedback |-> feedback,
                                          from |-> fbFrom])
    /\ events' = Append(events, Event(attempt, "generate", 0))
    /\ IF NoCommand(command')
       THEN /\ feedback' = FeedbackAfterSkip(feedback)
            /\ pc' = "for"
       ELSE /\ feedback' = feedback
            /\ pc' = PcAfterGenerate
    /\ UNCHANGED << api_key_env, tests, max_attempts, i, results, rules, attempt,
                    before, after, result, fbFrom, lastPing >>
    /\ UNCHANGED success_rate

\* line 135
Baseline ==
    /\ pc = "baseline"
    /\ \E n \in PingReports :
         /\ before' = test_connectivity(PingOutput(n))
         /\ lastPing' = << n, before' >>
    /\ events' = Append(events, Event(attempt, "baseline", 0))
    /\ pc' = "deploy"
    /\ UNCHANGED << api_key_env, tests, max_attempts, i, results, rules, attempt,
                    feedback, command, after, result, genCalls, fbFrom >>
    /\ UNCHANGED << lastRaw, success_rate >>

\* lines 140-144: the command runs on the source host; iptables may reject it
Deploy ==
    /\ pc = "deploy"
    /\ \E accepted \in BOOLEAN :
         /\ rules' = IF accepted
                     THEN [rules EXCEPT ![Cur.src] = Append(@, command)]
                     ELSE rules
    /\ events' = Append(events, Event(attempt, "deploy", 0))
    /\ lastPing' = None
    /\ pc' = "verify"
    /\ UNCHANGED << api_key_env, tests, max_attempts, i, results, attempt, feedback,
                    command, before, after, result, genCalls, fbFrom >>
    /\ UNCHANGED << lastRaw, success_rate >>

\* line 148
Verify ==
    /\ pc = "verify"
    /\ \E n \in PingReports :
         /\ after' = test_connectivity(PingOutput(n))
         /\ lastPing' = << n, after' >>
    /\ events' = Append(events, Event(attempt, "verify", after'[1]))
    /\ pc' = "classify"
    /\ UNCHANGED << api_key_env, tests, max_attempts, i, results, rules, attempt,
                    feedback, command, before, result, genCalls, fbFrom >>
    /\ UNCHANGED << lastRaw, success_rate >>

\* lines 156-183
Classify ==
    /\ pc = "classify"
    /\ IF Validated(Cur.intent, before[1], after[1])
       THEN /\ result' = SuccessResult(command, attempt)
            /\ events' = Append(events, Event(attempt, "classify", 0))
            /\ FrameEnds
            /\ pc' = "returned"
            /\ UNCHANGED << rules, fbFrom, lastRaw >>
       ELSE /\ feedback' = NextFeedback(feedback,
                                        BuildFeedback(Cur.src, Cur.dst, after[1]))
            /\ fbFrom' = attempt
            /\ lastRaw' = None
            /\ rules' = RulesAfterFail(rules, Cur.src)
            /\ events' = events \o << Event(attempt, "classify", 0),
                                      Event(attempt, "reset", 0) >>
            /\ pc' = "for"
            /\ UNCHANGED << result, attempt, command, before, after >>
    /\ lastPing' = None
    /\ UNCHANGED << api_key_env, tests, max_attempts, i, results, genCalls >>
    /\ UNCHANGED success_rate

\* lines 231-236
MainAppend ==
    /\ pc = "returned"
    /\ results' = Append(results,
                         [intent |-> Cur.intent, src |-> Cur.src, dst |-> Cur.dst,
                          success |-> result.success, command |-> result.command,
                          attempts |-> result.attempts])
    /\ rules' = [rules EXCEPT ![Cur.src] = Flush(@)]
    /\ pc' = PcAfterTest(result)
    /\ UNCHANGED << api_key_env, tests, max_attempts, i, attempt, feedback, command,
                    before, after, result, genCalls, events, fbFrom, lastPing >>
    /\ UNCHANGED << lastRaw, success_rate >>

\* lines 238-263
Summary ==
    /\ pc = "summary"
    /\ success_rate' = SuccessRate(results)
    /\ pc' = "done"
    /\ UNCHANGED << api_key_env, tests, max_attempts, i, results, rules, attempt,
                    feedback, command, before, after, result, genCalls, events,
                    fbFrom, lastPing >>
    /\ UNCHANGED lastRaw

Next ==
    \/ Start
    \/ MainFor
    \/ ForAttempt
    \/ Exhausted
    \/ Generate
    \/ Baseline
    \/ Deploy
    \/ Verify
    \/ Classify
    \/ MainAppend
    \/ Summary

Spec == Init /\ [][Next]_vars

\* every step of the program is a blocking call that returns
FairSpec == Spec /\ WF_vars(Next)

TypeOK ==
    /\ pc \in {"start", "fatal", "main_for", "for", "gen", "baseline", "deploy",
               "verify", "classify", "returned", "summary", "done"}
    /\ i \in 0..Len(tests)
    /\ attempt \in 0..max_attempts

\* ---------------------------------------------------------------- properties
\* the loss the validation step asks for, by test case
ExpectedLoss(test) == IF test.intent = IntentBlock THEN 100 ELSE 0

\* the events of attempt a, in order
EventsOf(a) == SelectSeq(events, LAMBDA e : e.a = a)

VerifyEvents == { k \in 1..Len(events) : events[k].ev = "verify" }

NoAttemptSatisfied == \A k \in VerifyEvents : events[k].loss # ExpectedLoss(Cur)

\* C1: process_intent returns, and when no attempt satisfies the success
\* predicate it returns after exactly max_attempts generate calls (attempts
\* 1..max_attempts, one each) with success false, no command and
\* attempts = max_attempts.
C1_AttemptBudget ==
    /\ []((pc = "returned" /\ NoAttemptSatisfied) =>
              /\ result.success = FALSE
              /\ result.command = None
              /\ result.attempts = max_attempts
              /\ Len(genCalls) = max_attempts
              /\ \A k \in 1..Len(genCalls) : genCalls[k].attempt = k)
    /\ (pc = "for" /\ attempt = 0) ~> (pc = "returned")

C1_Witness ==
    /\ pc = "returned"
    /\ result.success = FALSE
    /\ max_attempts = 3
    /\ Len(genCalls) = 3
    /\ VerifyEvents # {}
    /\ Len(EventsOf(2)) = 1

\* C2: a successful return names the first attempt whose verify probe met the
\* success predicate, that attempt lies in 1..max_attempts, and nothing of a
\* later attempt has run: the validation of that attempt is the last event.
C2_FirstSuccess ==
    (pc = "returned" /\ result.success) =>
        /\ result.attempts \in 1..max_attempts
        /\ \E k \in VerifyEvents :
              /\ events[k].a = result.attempts
              /\ events[k].loss = ExpectedLoss(Cur)
        /\ \A k \in VerifyEvents :
              events[k].a < result.attempts => events[k].loss # ExpectedLoss(Cur)
        /\ \A k \in 1..Len(events) : events[k].a <= result.attempts
        /\ events[Len(events)] = Event(result.attempts, "classify", 0)
        /\ Len(genCalls) = result.attempts

C2_Witness ==
    /\ pc = "returned"
    /\ result.success
    /\ result.attempts = 2
    /\ \E k \in VerifyEvents : events[k].a = 1

\* C3: the validation step succeeds exactly when the loss measured after the
\* deployment is 100 for an intent with the block keyword (in any case) and
\* exactly when it is 0 for any other intent; 50 fails for every intent.
C3_SuccessPredicate ==
    [][ pc = "classify" =>
          /\ pc' \in {"returned", "for"}
          /\ (pc' = "returned") = (after[1] = ExpectedLoss(Cur))
          /\ (pc' = "returned") => result'.success
          /\ (after[1] = 50) => (pc' = "for") ]_vars

C3_Witness ==
    /\ pc = "for"
    /\ Cur.intent = IntentBlock
    /\ Len(events) >= 3
    /\ events[Len(events)].ev = "reset"
    /\ events[Len(events) - 2] = Event(attempt, "verify", 50)

\* C4: the probe returns (0, REACHABLE) when ping reports 0% packet loss,
\* (100, BLOCKED) when it reports 100% packet loss, and (50, PARTIAL) for
\* every other output.
C4_ProbeClassification ==
    Len(lastPing) = 2 =>
        lastPing[2] = IF lastPing[1] = 0 THEN << 0, "REACHABLE" >>
                      ELSE IF lastPing[1] = 100 THEN << 100, "BLOCKED" >>
                      ELSE << 50, "PARTIAL" >>

\* C5: the rule table of the source host is empty at every baseline probe and
\* right before every deploy, in every attempt of every intent.
C5_CleanTable ==
    pc \in {"baseline", "deploy"} => rules[Cur.src] = <<>>

C5_Witness ==
    /\ pc = "baseline"
    /\ i = 2
    /\ results[1].success
    /\ attempt >= 2
    /\ Len(EventsOf(attempt - 1)) = 6

\* the attempts of the current intent that deployed a rule
DeployedAttempts == { events[k].a : k \in { j \in 1..Len(events) : events[j].ev = "deploy" } }

\* the attempts of the current intent that were validated and failed
FailedAttempts == { events[k].a : k \in { j \in 1..Len(events) : events[j].ev = "reset" } }

\* the loss measured by the verify probe of attempt a
LossAfter(a) == events[CHOOSE k \in VerifyEvents : events[k].a = a].loss

\* C6: an attempt whose generate call returns nothing usable (None or an empty
\* text) does no probe, deploy or reset, leaves feedback alone, uses up its
\* attempt and goes on to the next attempt or to the exhausted result; the
\* command that is deployed is the non-empty one generated in that attempt.
C6_SkipWithoutCommand ==
    [][ /\ (pc = "gen" /\ (command' = None \/ command' = <<>>)) =>
              /\ pc' = "for"
              /\ feedback' = feedback
              /\ rules' = rules
              /\ attempt' = attempt
              /\ events' = Append(events, Event(attempt, "generate", 0))
              /\ Len(genCalls') = Len(genCalls) + 1
        /\ (pc = "gen" /\ pc' # "for") => (command' # None /\ command' # <<>>)
        /\ (pc = "for" /\ attempt < max_attempts) =>
              (pc' = "gen" /\ attempt' = attempt + 1)
        /\ (pc = "for" /\ attempt >= max_attempts) =>
              (pc' = "returned" /\ result'.success = FALSE)
        /\ (pc \in {"baseline", "deploy"}) => command' = command
        /\ (pc = "deploy") =>
              /\ command # None /\ command # <<>>
              /\ events[Len(events) - 1] = Event(attempt, "generate", 0)
              /\ \/ rules' = rules
                 \/ rules' = [rules EXCEPT ![Cur.src] = Append(@, command)] ]_vars

C6_Witness ==
    /\ pc = "for"
    /\ attempt = 2
    /\ command = <<>>
    /\ feedback # None
    /\ events[Len(events)] = Event(2, "generate", 0)

\* C7: the feedback given to a generate call is None when no earlier attempt of
\* the same intent was validated and failed, and otherwise is the feedback built
\* from the loss measured after the deployment of the latest such attempt and
\* the intent's source and destination.
C7_LatestFailureFeedback ==
    \A k \in 1..Len(genCalls) :
        LET earlier == { a \in FailedAttempts : a < genCalls[k].attempt }
        IN  IF earlier = {}
            THEN genCalls[k].feedback = None
            ELSE LET last == CHOOSE a \in earlier : \A b \in earlier : b <= a
                 IN  genCalls[k].feedback =
                         BuildFeedback(Cur.src, Cur.dst, LossAfter(last))

C7_Witness ==
    /\ i = 2
    /\ results[1].success = FALSE
    /\ Len(genCalls) = 3
    /\ genCalls[1].feedback = None
    /\ genCalls[2].feedback # None
    /\ genCalls[3].feedback # None
    /\ genCalls[2].feedback # genCalls[3].feedback

\* C8 as stated: feedback built from the failure of attempt k reaches the
\* generate call of attempt k+1 only.
C8_OnlyNextAttempt ==
    \A k \in 1..Len(genCalls) :
        genCalls[k].from # 0 => genCalls[k].attempt = genCalls[k].from + 1

\* C8 amended: feedback built from the failure of attempt k reaches the generate
\* call of attempt k+1, and that of a later attempt m exactly when every attempt
\* between k and m was skipped for lack of a command; a generate call gets
\* feedback only from a failed attempt.
C8_UntilNextDeployment ==
    \A k \in 1..Len(genCalls) :
        LET g == genCalls[k]
        IN  /\ (g.from = 0) = (g.feedback = None)
            /\ g.from # 0 => g.from \in FailedAttempts
            /\ \A a \in FailedAttempts :
                  a < g.attempt =>
                     ((g.from = a) =
                        (\A j \in (a + 1)..(g.attempt - 1) : j \notin DeployedAttempts))

C8_Witness ==
    /\ Len(genCalls) = 3
    /\ genCalls[3].from = 1
    /\ genCalls[3].feedback # None
    /\ Len(EventsOf(2)) = 1

AttemptSteps == << "generate", "baseline", "deploy", "verify", "classify", "reset" >>

\* C9: an attempt that deploys runs generate, baseline probe, deploy, verify
\* probe, validation in this order, each once; nothing comes between the deploy
\* and the verify probe, and the attempts follow one another.
C9_StepOrder ==
    /\ \A a \in 1..MaxAttemptsBound + 1 :
          LET es == EventsOf(a)
          IN  /\ Len(es) <= Len(AttemptSteps)
              /\ \A k \in 1..Len(es) : es[k].ev = AttemptSteps[k]
              /\ (a \in DeployedAttempts /\ (a < attempt \/ pc = "returned")) =>
                    Len(es) >= 5
    /\ \A k \in 1..(Len(events) - 1) : events[k].a <= events[k + 1].a

C9_Witness ==
    /\ pc = "classify"
    /\ attempt = 2
    /\ Len(EventsOf(1)) = 6
    /\ Len(EventsOf(2)) = 4

\* the record main stores for test case k when process_intent returned r
Recorded(k, r) ==
    [intent |-> tests[k].intent, src |-> tests[k].src, dst |-> tests[k].dst,
     success |-> r.success, command |-> r.command, attempts |-> r.attempts]

InProcessIntent ==
    pc \in {"for", "gen", "baseline", "deploy", "verify", "classify", "returned"}

\* C10: the intents are processed one after another, the results are one per
\* intent in input order while the batch runs and at its end, and an intent
\* that used up its attempts is recorded as failed and the batch goes on.
C10_OneResultPerIntent ==
    /\ [](/\ Len(results) <= Len(tests)
          /\ \A k \in 1..Len(results) :
                /\ results[k].intent = tests[k].intent
                /\ results[k].src = tests[k].src
                /\ results[k].dst = tests[k].dst
          /\ InProcessIntent => Len(results) = i - 1
          /\ pc \in {"main_for", "summary", "done"} => Len(results) = i)
    /\ [][ pc = "returned" =>
              /\ results' = Append(results, Recorded(i, result))
              /\ pc' = "main_for" ]_vars
    /\ (pc = "main_for") ~> (pc = "done" /\ Len(results) = Len(tests))

C10_Witness ==
    /\ pc = "done"
    /\ Len(results) = 2
    /\ results[1].success = FALSE
    /\ results[1].attempts = max_attempts
    /\ results[2].success

\* C11: the success rate of the summary is successes / results as a
\* percentage, 0 for an empty batch; with one intent passing at attempt 1 and
\* one failing all 3 attempts it is 50% and the recorded attempts are 1 and 3.
C11_SuccessRate ==
    pc = "done" =>
        LET n   == Len(results)
            won == Cardinality({ k \in 1..n : results[k].success })
        IN  /\ success_rate[2] > 0
            /\ n = 0 => success_rate[1] = 0
            /\ n > 0 => success_rate[1] * n = won * 100 * success_rate[2]
            /\ (/\ n = 2
                /\ max_attempts = 3
                /\ results[1].success
                /\ results[1].attempts = 1
                /\ ~results[2].success) =>
                  /\ success_rate[1] = 50 * success_rate[2]
                  /\ results[2].attempts = 3

C11_Witness ==
    /\ pc = "done"
    /\ Len(results) = 2
    /\ max_attempts = 3
    /\ results[1].success
    /\ results[1].attempts = 1
    /\ ~results[2].success
    /\ results[2].attempts = 3
    /\ success_rate = << 100, 2 >>

\* C12: with the API key unset, empty or blank the run stops at the start:
\* no generate call, probe, deploy or reset happens and no result is produced.
C12_FatalWithoutKey ==
    (api_key_env = <<>> \/ \A k \in 1..Len(api_key_env) : api_key_env[k] \in {" ", "\t", "\n"}) =>
        /\ pc \in {"start", "fatal"}
        /\ i = 0
        /\ genCalls = <<>>
        /\ events = <<>>
        /\ results = <<>>
        /\ \A h \in Hosts : rules[h] = <<>>

C12_Witness ==
    /\ pc = "fatal"
    /\ api_key_env = << " ", "\t" >>
    /\ tests # <<>>
    /\ max_attempts > 0

\* the rule tables a host may hold, up to MaxTableLen rules
RuleTables == UNION { [1..n -> {RuleA, RuleHash}] : n \in 0..MaxTableLen }

C14_FeedbackPolarity ==
    (InProcessIntent /\ feedback # None) =>
        /\ (feedback[1] = "Expected traffic to be fully blocked between ")
              = (Cur.intent = IntentBlock)
        /\ feedback[2] = Cur.src
        /\ feedback[4] = Cur.dst
        /\ SubSeq(feedback, 6, Len(feedback) - 1) = Digits(LossAfter(fbFrom))

\* the completions that wrap a command, with the command they wrap
Wrappings ==
    { << RawFenced, RuleA >>, << RawFencedSh, RuleHash >> }

\* C15: the command obtained from a completion that wraps a one-line command
\* (here: in a code fence opened with the dialect name bash or sh) is exactly
\* that command.
C15_SanitizeRecovers ==
    \A w \in Wrappings :
        (lastRaw = w[1] /\ pc \in {"baseline", "deploy", "verify", "classify"}) =>
            command = w[2]

\* the attempts whose verify probe met the success predicate
Winning == { a \in DeployedAttempts :
               \E k \in VerifyEvents : events[k].a = a /\ events[k].loss = ExpectedLoss(Cur) }

\* the feedback for the generate call of attempt a, from the verify probes alone
FeedbackFromVerify(a) ==
    LET failed == { events[k].a : k \in { j \in VerifyEvents :
                        events[j].a < a /\ events[j].loss # ExpectedLoss(Cur) } }
    IN  IF failed = {} THEN None
        ELSE BuildFeedback(Cur.src, Cur.dst,
                           LossAfter(CHOOSE b \in failed : \A c \in failed : c <= b))

\* C16: the baseline probe gates nothing. The returned success, command and
\* attempts and the feedback of every generate call are functions of the
\* intent, max_attempts, the generator results and the verify probe results,
\* whatever the baseline probes returned, and the validation step decides by
\* the verify probe alone; two runs that differ in the baseline results only
\* therefore agree on all of them.
C16_BaselineDoesNotGate ==
    /\ [](/\ \A k \in 1..Len(genCalls) :
                genCalls[k].feedback = FeedbackFromVerify(genCalls[k].attempt)
          /\ pc = "returned" =>
                IF Winning = {}
                THEN result = [success |-> FALSE, command |-> None,
                               attempts |-> max_attempts]
                ELSE LET a == CHOOSE w \in Winning : \A v \in Winning : w <= v
                     IN  result = [success |-> TRUE,
                                   command |-> generate_network_command(lastRaw),
                                   attempts |-> a])
    /\ [][ pc = "classify" =>
              /\ (pc' = "returned") = (attempt \in Winning)
              /\ (pc' # "returned") =>
                    (pc' = "for" /\ feedback' = FeedbackFromVerify(attempt + 1)') ]_vars

C16_Witness ==
    /\ pc = "classify"
    /\ Cur.intent = IntentAllow
    /\ attempt = 2
    /\ before[1] = 50
    /\ after[1] = 0
    /\ genCalls[2].feedback # None

\* C17 as stated: when process_intent returns with success the rule table of
\* the source host holds exactly the returned command, which is the sanitized
\* text generated in the succeeding attempt; without success the table is empty
\* and no command is returned.
C17_TableAtReturn ==
    pc = "returned" =>
        IF result.success
        THEN /\ rules[Cur.src] = << result.command >>
             /\ result.command = generate_network_command(lastRaw)
        ELSE /\ rules[Cur.src] = <<>>
             /\ result.command = None

\* C17 amended: with success the table holds at most one rule, the returned
\* command, or nothing (iptables rejected that command): it is what the deploy
\* of the succeeding attempt left, kept through the verify probe and the
\* validation. The returned command is the non-empty sanitized text generated
\* in the succeeding attempt. Without success the table is empty and no command
\* is returned.
C17_TableAtReturnIfAccepted ==
    /\ [](pc = "returned" =>
            IF result.success
            THEN /\ rules[Cur.src] \in { <<>>, << result.command >> }
                 /\ result.command = generate_network_command(lastRaw)
                 /\ result.command # None /\ result.command # <<>>
            ELSE /\ rules[Cur.src] = <<>>
                 /\ result.command = None)
    /\ [][ /\ pc = "deploy" => rules'[Cur.src] \in { <<>>, << command >> }
           /\ (pc = "verify" \/ (pc = "classify" /\ pc' = "returned")) =>
                 rules' = rules ]_vars

C17_Witness ==
    /\ pc = "returned"
    /\ result.success
    /\ result.attempts = 2
    /\ rules[Cur.src] = << result.command >>
    /\ result.command = RuleA
    /\ lastRaw = RawFenced

====
